---- MODULE Spec2Model ----
(***************************************************************************)
(* Model of the document question-answering backend:                       *)
(*   - VectorStoreManager (services/vectorStore.service.ts)                *)
(*   - DocumentIngestionService (same file, second half)                   *)
(*   - QAEngine (services/qa.service.ts)                                   *)
(*   - the documents / qa routes and the configuration module              *)
(*                                                                         *)
(* A request handler is a process that runs from one I/O suspension point  *)
(* (embedding call, model call, file I/O) to the next in one step; between *)
(* two steps of a handler the steps of other handlers may run.             *)
(*                                                                         *)
(* A chunk is represented by its metadata.documentId; the content of a     *)
(* MemoryVectorStore is the number of chunks it holds per documentId.      *)
(***************************************************************************)
EXTENDS Integers, Sequences, FiniteSets, TLC

\* ------------------------------------------------------------------ bounds
MaxProcs == 2
MaxDocs == 2
MaxBatch == 1
MaxSmall == 2
MaxExcess == 1
MaxStores == 4
MaxFields == 2
MaxOverrides == 1
MaxContext == 5
MaxText == 3

\* ------------------------------------------------------- program constants
FullScanK == 10000
DefaultMaxFileSize == 10485760
DefaultChunkSize == 1000
DefaultChunkOverlap == 200
DefaultTopK == 4
DefaultLlmTemperatureTenths == 0
DefaultLlmMaxTokens == 500
DefaultScoreThresholdTenths == 7
MAX_RETRIES == 2

\* ---------------------------------------------------------------- domains
Procs == 1 .. MaxProcs

\* metadata.documentId of a chunk: missing or "" (both falsy), whitespace
\* only, an id chosen by the caller of the class, or an id minted by
\* generateDocumentId
NoId == ""
Blank == " "
CallerIds == {"A", "B"}
Uuid(i) == "u" \o ToString(i)
MintedIds == {Uuid(i) : i \in 1 .. MaxDocs}
ApiKeys == {NoId, Blank} \cup CallerIds
DocKeys == ApiKeys \cup MintedIds

\* the VectorStoreManager instances: the one of documents.routes.ts, the one
\* of qa.routes.ts, and one driven directly through the class interface
Managers == {"docs", "qa", "lib"}
Null == 0

BatchSizes == (0 .. MaxBatch) \cup {FullScanK}

\* sizes the model lets a store or a registry entry grow to: a few chunks,
\* or a full scan's worth and a little more
WithinBounds(t) ==
    \/ t <= MaxSmall
    \/ t >= FullScanK - MaxExcess /\ t <= FullScanK + MaxExcess

\* RAGConfig: the numeric fields (llmTemperature and scoreThreshold in tenths)
ConfigFields == {"chunkSize", "chunkOverlap", "topK", "llmTemperature",
                 "llmMaxTokens", "scoreThreshold"}

DEFAULT_CONFIG ==
    [chunkSize |-> DefaultChunkSize, chunkOverlap |-> DefaultChunkOverlap,
     topK |-> DefaultTopK, llmTemperature |-> DefaultLlmTemperatureTenths,
     llmMaxTokens |-> DefaultLlmMaxTokens,
     scoreThreshold |-> DefaultScoreThresholdTenths]

\* files handed to ingestDocument: what fs.stat, the extension check and the
\* loader find, and the length of the trimmed text the loader extracts
File(stat, size, ext, load, len) ==
    [stat |-> stat, size |-> size, ext |-> ext, load |-> load, len |-> len]

ShortLen == 50
LongLen == 1500
GoodFiles == {File("ok", ShortLen, "txt", "ok", ShortLen),
              File("ok", LongLen, "pdf", "ok", LongLen)}
BadFiles == {File("missing", 0, "txt", "ok", 0),
             File("ok", 0, "txt", "ok", 0),
             File("ok", DefaultMaxFileSize + 1, "txt", "ok", LongLen),
             File("ok", ShortLen, "exe", "ok", ShortLen),
             File("ok", ShortLen, "pdf", "corrupt", 0),
             File("ok", ShortLen, "docx", "ok", 0)}
Files == GoodFiles \cup BadFiles
NoFile == File("missing", 0, "", "ok", 0)

\* configurations handed to ingestDocument: valid and invalid chunking
Chunking(size, overlap) ==
    [DEFAULT_CONFIG EXCEPT !.chunkSize = size, !.chunkOverlap = overlap]
DefaultChunking == Chunking(DefaultChunkSize, DefaultChunkOverlap)
Chunkings == {DefaultChunking, Chunking(0, 0), Chunking(DefaultChunkSize, -1),
              Chunking(DefaultChunkSize, DefaultChunkSize)}

VARIABLES
    configInstance,     \* <<>> while no configuration is loaded, else <<config>>
    qaChain,            \* manager -> retrieval chain of the QAEngine built on it
    conversationalChain, \* manager -> its chain for questions with history
    llm,                \* manager -> language-model client its QAEngine holds
    ingestionStates,    \* documentId -> IngestionState of the tracked documents
    nextDocId,          \* number of the next documentId to be minted
    vectorStore,        \* manager -> store object held (Null before init)
    stores,             \* heap of MemoryVectorStore objects: slot -> content
    documentRegistry,   \* manager -> (documentId -> number of chunk ids)
    pc,                 \* process -> the call it is suspended in
    ret,                \* process -> outcome of the call it last finished
    added               \* manager -> chunks handed to addDocuments per documentId
                        \*   since the document was last deleted (history)

configVars == <<configInstance>>
qaVars == <<qaChain, conversationalChain, llm>>
storeVars == <<vectorStore, stores, documentRegistry, added>>
ingestVars == <<ingestionStates, nextDocId>>
vars == <<configInstance, qaChain, conversationalChain, llm, ingestionStates, nextDocId, vectorStore,
          stores, documentRegistry, pc, ret, added>>

\* ------------------------------------------------------------ chunk bags
EmptyContent == [d \in DocKeys |-> 0]

RECURSIVE SumOver(_, _)
SumOver(f, S) ==
    IF S = {} THEN 0
    ELSE LET d == CHOOSE x \in S : TRUE IN f[d] + SumOver(f, S \ {d})

Total(c) == SumOver(c, DOMAIN c)

Min(a, b) == IF a <= b THEN a ELSE b

Plus(c, id, n) == [c EXCEPT ![id] = @ + n]
Union(c1, c2) == [d \in DocKeys |-> c1[d] + c2[d]]
Minus(c1, c2) == [d \in DocKeys |-> c1[d] - c2[d]]

Support(c) == {d \in DocKeys : c[d] > 0}

\* the sub-bags of c holding exactly t chunks
Choose(c, t) ==
    {[d \in DocKeys |-> IF d \in Support(c) THEN r[d] ELSE 0] :
        r \in {x \in [Support(c) -> 0 .. t] :
                  /\ \A d \in Support(c) : x[d] <= c[d]
                  /\ Total(x) = t}}

\* MemoryVectorStore.similaritySearch(query, k): the k most similar chunks;
\* which ones they are is decided by the embeddings, so any k of them
SimilaritySearchResults(c, k) ==
    IF Total(c) <= k THEN {c}
    ELSE IF Total(c) - k <= k
         THEN {Minus(c, dr) : dr \in Choose(c, Total(c) - k)}
         ELSE Choose(c, k)

\* ---------------------------------------------------------- process state
\* Partial<QAConfig> with no field given
NoConfig == [f \in {} |-> 0]

\* QAConfig of a call that asks nothing
NoQAConfig == [topK |-> 0, temperature |-> 0, maxTokens |-> 0]

\* new ChatOpenAI({temperature, maxTokens}): a language-model client
Client(temperature, maxTokens) ==
    [temperature |-> temperature, maxTokens |-> maxTokens]

NoClient == Client(-1, 0)

Idle ==
    [op |-> "idle", at |-> "-", route |-> "none", m |-> "docs",
     id |-> NoId, n |-> 0, target |-> Null, rest |-> EmptyContent,
     preReg |-> <<>>, preContent |-> EmptyContent,
     file |-> NoFile, cfg |-> DefaultChunking,
     question |-> "", config |-> NoConfig, qaConfig |-> NoQAConfig,
     client |-> NoClient, sourceDocuments |-> <<>>,
     text |-> <<>>, metadata |-> <<>>]

\* outcome: "returned", the error class thrown, or "responded" for a route;
\* count, ok, sources: the value returned; error: the message of the error;
\* status: the HTTP status of a route's response; question: the question of
\* an ask; client: the language-model client that generated its answer;
\* formatted, confidence: the sources and the confidence of a QAResponse;
\* results, k: the chunks a search returned, best first, and its k;
\* stats: the value of getStoreStats
NoRet ==
    [call |-> "none", m |-> "docs", id |-> NoId, outcome |-> "-",
     count |-> 0, ok |-> FALSE, error |-> "", sources |-> EmptyContent,
     status |-> 0, question |-> "", client |-> NoClient,
     formatted |-> <<>>, confidence |-> <<0, 1>>, results |-> <<>>, k |-> 0,
     stats |-> [totalDocuments |-> 0, totalChunks |-> 0, documentIds |-> {}]]

Slots == 1 .. MaxStores

\* the chain a QAEngine has before its first question
NoChain == [store |-> Null, k |-> 0, llm |-> NoClient]

\* a store object is alive while a manager, a retrieval chain or a suspended
\* call holds it; a slot nobody holds is empty and can be given to a new
\* store object
Referenced(s, vs, ch, pcs) ==
    \/ \E m \in Managers : vs[m] = s \/ s \in ch[m]
    \/ \E p \in Procs : pcs[p].target = s

Collect(st, vs, ch, pcs) ==
    [s \in Slots |-> IF Referenced(s, vs, ch, pcs) THEN st[s] ELSE EmptyContent]

\* the store objects the retrievers of an engine's chains are bound to
chainStores ==
    [m \in Managers |-> {qaChain[m].store, conversationalChain[m].store}]

FreeSlots == {s \in Slots : ~Referenced(s, vectorStore, chainStores, pc)}
CanAllocate == FreeSlots # {}
NewStore == CHOOSE s \in FreeSlots : \A t \in FreeSlots : s <= t

\* chunks a manager can retrieve: the content of the store it holds
Content(m) ==
    IF vectorStore[m] = Null THEN EmptyContent ELSE stores[vectorStore[m]]

\* ------------------------------------------------------------ results
Returned(call, m, id, count, ok) ==
    [NoRet EXCEPT !.call = call, !.m = m, !.id = id, !.outcome = "returned",
                  !.count = count, !.ok = ok]

Threw(call, m, id, class, message) ==
    [NoRet EXCEPT !.call = call, !.m = m, !.id = id, !.outcome = class,
                  !.error = message]

\* res.status(status).json(...) of a route
Response(call, id, status, count, message) ==
    [NoRet EXCEPT !.call = call, !.id = id, !.outcome = "responded",
                  !.status = status, !.ok = status < 400, !.count = count,
                  !.error = message]

\* the global error handler of server.ts
errorHandler(class) ==
    CASE class = "DocumentProcessingError" -> 400
      [] class = "VectorStoreError" -> 503
      [] class = "LLMError" -> 503
      [] class = "RetrievalError" -> 404
      [] OTHER -> 500

\* a suspended call finishes
Finish(p, result) ==
    /\ pc' = [pc EXCEPT ![p] = Idle]
    /\ ret' = [ret EXCEPT ![p] = result]

\* a call starts and finishes without suspending; ret keeps the outcomes of
\* the calls finished since a call was last started
FinishNow(p, result) ==
    /\ pc' = [pc EXCEPT ![p] = Idle]
    /\ ret' = [q \in Procs |-> IF q = p THEN result ELSE NoRet]

Suspend(p, call) ==
    /\ pc' = [pc EXCEPT ![p] = call]
    /\ ret' = [q \in Procs |-> NoRet]

Out(p, now, result) == IF now THEN FinishNow(p, result) ELSE Finish(p, result)

\* removeDocument: ingestionStates.delete(documentId)
StatesAfterRemove(states, id) == [d \in DOMAIN states \ {id} |-> states[d]]

\* ------------------------------------------------------ VectorStoreManager
hasDocument(m, id) == id \in DOMAIN documentRegistry[m]

getDocumentChunkCount(m, id) ==
    IF id \in DOMAIN documentRegistry[m] THEN documentRegistry[m][id] ELSE 0

getStoredDocumentIds(m) == DOMAIN documentRegistry[m]

\* initializeStore: a manager without a store gets a new empty one
initializeStore(m) ==
    IF vectorStore[m] # Null
    THEN vectorStore
    ELSE [vectorStore EXCEPT ![m] = NewStore]

RegistryAfterAddDedup(reg, id, n) ==
    IF id = NoId THEN reg
    ELSE [d \in DOMAIN reg \cup {id} |-> IF d = id THEN n ELSE reg[d]]

\* registry bookkeeping of addDocuments: one chunk id per chunk, kept only
\* for a truthy documentId
RegistryAfterAdd(reg, id, n) ==
    IF id = NoId THEN reg
    ELSE [d \in DOMAIN reg \cup {id} |->
            (IF d \in DOMAIN reg THEN reg[d] ELSE 0) + (IF d = id THEN n ELSE 0)]

\* deleteDocument's guards: `!documentId || documentId.trim() === ""` and
\* `!chunkIds || chunkIds.length === 0`
IsEmptyId(id) == id = NoId \/ id = Blank

InRegistryAlways(m, id) == TRUE

InRegistry(m, id) == getDocumentChunkCount(m, id) # 0

\* message of an error raised by the embedding service or the model
BackendFailure == "embedding request failed"

RegistryAfterDeleteAll(reg, id) == <<>>

\* documentRegistry.delete(documentId)
RegistryAfterDelete(reg, id) == [d \in DOMAIN reg \ {id} |-> reg[d]]

\* where the result of a VectorStoreManager call goes: to the caller of the
\* class, or into the rest of the route handler that awaited it.
\*   POST /upload: addDocuments was the last await; 201, or the error handler
\*   DELETE /:id: then removeDocument, 404 when neither knew the document
StoreReturn(p, route, now, result) ==
    IF route = "upload"
    THEN /\ Out(p, now,
                IF result.outcome = "returned"
                THEN Response("upload", result.id, 201, result.count, "")
                ELSE Response("upload", result.id, errorHandler(result.outcome),
                              0, result.error))
         /\ UNCHANGED ingestionStates
    ELSE IF route = "delete"
    THEN IF result.outcome # "returned"
         THEN /\ Out(p, now, Response("delete", result.id,
                                      errorHandler(result.outcome), 0, result.error))
              /\ UNCHANGED ingestionStates
         ELSE /\ ingestionStates' = StatesAfterRemove(ingestionStates, result.id)
              /\ Out(p, now,
                     IF ~result.ok /\ result.id \notin DOMAIN ingestionStates
                     THEN Response("delete", result.id, 404, 0, "Document not found")
                     ELSE Response("delete", result.id, 200, 0, ""))
    ELSE /\ Out(p, now, result)
         /\ UNCHANGED ingestionStates

\* addDocuments(documents) with a non-empty batch, up to the embedding call
AddBegin(p, route, m, id, n) ==
    /\ vectorStore[m] = Null => CanAllocate
    /\ vectorStore' = initializeStore(m)
    /\ Suspend(p, [Idle EXCEPT !.op = "addDocuments", !.at = "embed",
                               !.route = route, !.m = m, !.id = id, !.n = n,
                               !.target = vectorStore'[m]])
    /\ UNCHANGED <<stores, documentRegistry, added>>

\* addDocuments(documents) called on the class; an empty batch returns []
AddStart(p, m, id, n) ==
    /\ pc[p].op = "idle"
    /\ WithinBounds(Total(Content(m)) + n)
    /\ WithinBounds(Content(m)[id] + n)
    /\ WithinBounds(getDocumentChunkCount(m, id) + n)
    /\ IF n = 0
       THEN /\ vectorStore[m] = Null => CanAllocate
            /\ vectorStore' = initializeStore(m)
            /\ FinishNow(p, Returned("addDocuments", m, id, 0, TRUE))
            /\ UNCHANGED <<stores, documentRegistry, added>>
       ELSE AddBegin(p, "none", m, id, n)
    /\ UNCHANGED <<ingestVars, configVars, qaVars>>

\* the embeddings arrive: the captured store object gets the chunks, the
\* registry the chunk ids
AddEmbedded(p) ==
    /\ pc[p].op = "addDocuments" /\ pc[p].at = "embed"
    /\ documentRegistry' =
         [documentRegistry EXCEPT ![pc[p].m] = RegistryAfterAdd(@, pc[p].id, pc[p].n)]
    /\ added' = [added EXCEPT ![pc[p].m] =
                     IF pc[p].id = NoId THEN @ ELSE Plus(@, pc[p].id, pc[p].n)]
    /\ StoreReturn(p, pc[p].route, FALSE,
                   Returned("addDocuments", pc[p].m, pc[p].id, pc[p].n, TRUE))
    /\ UNCHANGED <<vectorStore, nextDocId, configVars, qaVars>>
    /\ stores' = Collect([stores EXCEPT ![pc[p].target] = Plus(@, pc[p].id, pc[p].n)],
                         vectorStore', chainStores', pc')

\* the embedding service fails
AddFailed(p) ==
    /\ pc[p].op = "addDocuments" /\ pc[p].at = "embed"
    /\ StoreReturn(p, pc[p].route, FALSE,
                   Threw("addDocuments", pc[p].m, pc[p].id, "VectorStoreError",
                         BackendFailure))
    /\ UNCHANGED <<vectorStore, documentRegistry, added, nextDocId, configVars, qaVars>>
    /\ stores' = Collect(stores, vectorStore', chainStores', pc')

\* deleteDocument(documentId), up to the full scan's embedding call; with
\* snap the call remembers the registry and the chunks it started from
DelBegin(p, route, m, id, snap) ==
    /\ vectorStore[m] = Null => CanAllocate
    /\ vectorStore' = initializeStore(m)
    /\ IF IsEmptyId(id)
       THEN StoreReturn(p, route, TRUE,
                        Threw("deleteDocument", m, id, "VectorStoreError",
                              "Document ID cannot be empty"))
       ELSE IF ~InRegistry(m, id)
       THEN StoreReturn(p, route, TRUE, Returned("deleteDocument", m, id, 0, FALSE))
       ELSE /\ Suspend(p, [Idle EXCEPT
                             !.op = "deleteDocument", !.at = "scan",
                             !.route = route, !.m = m, !.id = id,
                             !.target = vectorStore'[m],
                             !.preReg = IF snap THEN documentRegistry[m] ELSE <<>>,
                             !.preContent = IF snap THEN Content(m) ELSE EmptyContent])
            /\ UNCHANGED ingestionStates
    /\ UNCHANGED <<stores, documentRegistry, added>>

\* deleteDocument(documentId) called on the class
DelStart(p, m, id, snap) ==
    /\ pc[p].op = "idle"
    /\ DelBegin(p, "none", m, id, snap)
    /\ UNCHANGED <<nextDocId, configVars, qaVars>>

\* the scan returns: similaritySearch("", 10000) on the captured store, the
\* chunks of other documents are kept, the manager gets a new store, and
\* the kept chunks, when there are any, are sent to be embedded again
DelScanned(p) ==
    /\ pc[p].op = "deleteDocument" /\ pc[p].at = "scan"
    /\ CanAllocate
    /\ \E allDocs \in SimilaritySearchResults(stores[pc[p].target], FullScanK) :
         LET remainingDocs == [allDocs EXCEPT ![pc[p].id] = 0]
         IN  /\ pc[p].m = "lib" => /\ WithinBounds(Total(remainingDocs))
                                   /\ \A d \in DocKeys : WithinBounds(remainingDocs[d])
             /\ vectorStore' = [vectorStore EXCEPT ![pc[p].m] = NewStore]
             /\ IF Total(remainingDocs) > 0
                THEN /\ pc' = [pc EXCEPT ![p].at = "rebuild", ![p].target = NewStore,
                                          ![p].rest = remainingDocs]
                     /\ UNCHANGED <<documentRegistry, ret, added, ingestionStates>>
                ELSE /\ documentRegistry' =
                          [documentRegistry EXCEPT ![pc[p].m] =
                              RegistryAfterDelete(@, pc[p].id)]
                     /\ added' = [added EXCEPT ![pc[p].m][pc[p].id] = 0]
                     /\ StoreReturn(p, pc[p].route, FALSE,
                                    Returned("deleteDocument", pc[p].m, pc[p].id, 0, TRUE))
             /\ UNCHANGED <<nextDocId, configVars, qaVars>>
             /\ stores' = Collect(stores, vectorStore', chainStores', pc')

\* the embedding service fails during the scan
DelScanFailed(p) ==
    /\ pc[p].op = "deleteDocument" /\ pc[p].at = "scan"
    /\ StoreReturn(p, pc[p].route, FALSE,
                   Threw("deleteDocument", pc[p].m, pc[p].id, "VectorStoreError",
                         BackendFailure))
    /\ UNCHANGED <<vectorStore, documentRegistry, added, nextDocId, configVars, qaVars>>
    /\ stores' = Collect(stores, vectorStore', chainStores', pc')

\* the kept chunks are embedded and stored in the new store object
DelRebuilt(p) ==
    /\ pc[p].op = "deleteDocument" /\ pc[p].at = "rebuild"
    /\ documentRegistry' =
         [documentRegistry EXCEPT ![pc[p].m] = RegistryAfterDelete(@, pc[p].id)]
    /\ added' = [added EXCEPT ![pc[p].m][pc[p].id] = 0]
    /\ StoreReturn(p, pc[p].route, FALSE,
                   Returned("deleteDocument", pc[p].m, pc[p].id, 0, TRUE))
    /\ UNCHANGED <<vectorStore, nextDocId, configVars, qaVars>>
    /\ stores' = Collect([stores EXCEPT ![pc[p].target] = Union(@, pc[p].rest)],
                         vectorStore', chainStores', pc')

\* the embedding service fails during the rebuild
DelRebuildFailed(p) ==
    /\ pc[p].op = "deleteDocument" /\ pc[p].at = "rebuild"
    /\ StoreReturn(p, pc[p].route, FALSE,
                   Threw("deleteDocument", pc[p].m, pc[p].id, "VectorStoreError",
                         BackendFailure))
    /\ UNCHANGED <<vectorStore, documentRegistry, added, nextDocId, configVars, qaVars>>
    /\ stores' = Collect(stores, vectorStore', chainStores', pc')

\* clearStore(): a new store object and an empty registry
ClearStore(p, m) ==
    /\ pc[p].op = "idle"
    /\ CanAllocate
    /\ vectorStore' = [vectorStore EXCEPT ![m] = NewStore]
    /\ documentRegistry' = [documentRegistry EXCEPT ![m] = <<>>]
    /\ added' = [added EXCEPT ![m] = EmptyContent]
    /\ FinishNow(p, Returned("clearStore", m, NoId, 0, TRUE))
    /\ UNCHANGED <<ingestVars, configVars, qaVars>>
    /\ stores' = Collect(stores, vectorStore', chainStores', pc')

\* ------------------------------------------------------ similarity search
\* initializeStore of manager m can give it a store object
CanInitialize(m) == vectorStore[m] = Null => CanAllocate

SearchOps == {"similaritySearch", "similaritySearchWithScore"}

\* cosine similarity of the embedding of a chunk and of a query, in tenths:
\* the chunks of "A" are the closest to "q", those of "B" to "r"
Similarity(query, id) ==
    CASE id = "A" -> IF query = "q" THEN 9 ELSE 3
      [] id = "B" -> IF query = "q" THEN 5 ELSE 8
      [] OTHER -> 1

\* MemoryVectorStore.similaritySearch(query, k): the chunks of the store
\* sorted by decreasing similarity to the query, cut after the k-th
RECURSIVE Ranked(_, _, _)
Ranked(c, query, k) ==
    IF k <= 0 \/ Total(c) = 0 THEN <<>>
    ELSE LET best == CHOOSE id \in Support(c) :
                         \A other \in Support(c) :
                             Similarity(query, other) <= Similarity(query, id)
         IN  <<best>> \o Ranked([c EXCEPT ![best] = @ - 1], query, k - 1)

validateSearchQueryOnly(query, k) ==
    IF query = "" \/ query = Blank THEN "Query cannot be empty" ELSE ""

\* the argument checks of similaritySearch and similaritySearchWithScore:
\* the message of the VectorStoreError raised, "" when none is
validateSearch(query, k) ==
    IF query = "" \/ query = Blank THEN "Query cannot be empty"
    ELSE IF k < 1 THEN "k must be at least 1"
    ELSE ""

similaritySearchDefaultK(c, query, k) == Ranked(c, query, DefaultTopK)

\* what similaritySearch returns: the result of the store, as it is
similaritySearch(c, query, k) == Ranked(c, query, k)

searchWithinDocumentTopK(c, id, query, k) ==
    SelectSeq(Ranked(c, query, k), LAMBDA d : d = id)

\* what searchWithinDocument returns: the k * 3 best chunks of the store,
\* those of the document kept, cut after the k-th
searchWithinDocument(c, id, query, k) ==
    LET results == Ranked(c, query, k * 3)
        filtered == SelectSeq(results, LAMBDA d : d = id)
    IN  SubSeq(filtered, 1, Min(k, Len(filtered)))

getStoreStatsOfDocuments(m) ==
    [totalDocuments |-> Cardinality(DOMAIN documentRegistry[m]),
     totalChunks |-> Cardinality(DOMAIN documentRegistry[m]),
     documentIds |-> getStoredDocumentIds(m)]

\* getStoreStats(): the size of the registry, the number of chunk ids it
\* lists, its keys
getStoreStats(m) ==
    [totalDocuments |-> Cardinality(DOMAIN documentRegistry[m]),
     totalChunks |-> SumOver(documentRegistry[m], DOMAIN documentRegistry[m]),
     documentIds |-> getStoredDocumentIds(m)]

\* getStoreStats() called
GetStoreStats(p, m) ==
    /\ pc[p].op = "idle"
    /\ FinishNow(p, [Returned("getStoreStats", m, NoId, 0, TRUE)
                       EXCEPT !.stats = getStoreStats(m)])
    /\ UNCHANGED <<storeVars, ingestVars, configVars, qaVars>>

\* searchWithinDocument(documentId, query, k) up to the query of the store:
\* the store is initialised, the arguments are checked, a document the
\* registry does not know has no results
WithinStart(p, m, id, query, k) ==
    /\ pc[p].op = "idle"
    /\ CanInitialize(m)
    /\ vectorStore' = initializeStore(m)
    /\ IF IsEmptyId(id) \/ validateSearchQueryOnly(query, k) # ""
       THEN FinishNow(p, [Threw("searchWithinDocument", m, id, "VectorStoreError",
                                IF IsEmptyId(id) THEN "Document ID cannot be empty"
                                ELSE "Query cannot be empty")
                            EXCEPT !.question = query, !.k = k])
       ELSE IF ~hasDocument(m, id)
       THEN FinishNow(p, [Returned("searchWithinDocument", m, id, 0, TRUE)
                            EXCEPT !.question = query, !.k = k])
       ELSE Suspend(p, [Idle EXCEPT !.op = "searchWithinDocument", !.at = "search",
                                    !.m = m, !.id = id,
                                    !.target = vectorStore'[m], !.n = k,
                                    !.question = query])
    /\ UNCHANGED <<stores, documentRegistry, added, ingestVars, configVars, qaVars>>

\* similaritySearch / similaritySearchWithScore(query, k) up to the query of
\* the store: the store is initialised, then the arguments are checked
SearchStart(p, m, op, query, k) ==
    /\ pc[p].op = "idle"
    /\ CanInitialize(m)
    /\ vectorStore' = initializeStore(m)
    /\ IF validateSearch(query, k) # ""
       THEN FinishNow(p, [Threw(op, m, NoId, "VectorStoreError",
                                validateSearch(query, k))
                            EXCEPT !.question = query, !.k = k])
       ELSE Suspend(p, [Idle EXCEPT !.op = op, !.at = "search", !.m = m,
                                    !.target = vectorStore'[m], !.n = k,
                                    !.question = query])
    /\ UNCHANGED <<stores, documentRegistry, added, ingestVars, configVars, qaVars>>

\* the store answers the query
SearchDone(p) ==
    /\ pc[p].at = "search"
    /\ LET results ==
             IF pc[p].op = "searchWithinDocument"
             THEN searchWithinDocument(stores[pc[p].target], pc[p].id,
                                       pc[p].question, pc[p].n)
             ELSE similaritySearch(stores[pc[p].target], pc[p].question, pc[p].n)
       IN  Finish(p, [Returned(pc[p].op, pc[p].m, pc[p].id, Len(results), TRUE)
                        EXCEPT !.results = results, !.question = pc[p].question,
                               !.k = pc[p].n])
    /\ UNCHANGED <<vectorStore, documentRegistry, added, ingestVars, configVars, qaVars>>
    /\ stores' = Collect(stores, vectorStore', chainStores', pc')

\* the embedding of the query fails
SearchFailed(p) ==
    /\ pc[p].at = "search"
    /\ Finish(p, [Threw(pc[p].op, pc[p].m, pc[p].id, "VectorStoreError", BackendFailure)
                     EXCEPT !.question = pc[p].question, !.k = pc[p].n])
    /\ UNCHANGED <<vectorStore, documentRegistry, added, ingestVars, configVars, qaVars>>
    /\ stores' = Collect(stores, vectorStore', chainStores', pc')

\* ------------------------------------------------ DocumentIngestionService
NoMetadata == [documentId |-> NoId, chunkCount |-> -1]
NoChunks == -1

generateDocumentIdReused == Uuid(1)

\* generateDocumentId: randomUUID(), an id never handed out before
generateDocumentId == Uuid(nextDocId)

\* ingestionStates.set(documentId, {documentId, status: "processing", progress: 0})
NewState(id) ==
    [documentId |-> id, status |-> "processing", progress |-> 0, error |-> "",
     metadata |-> NoMetadata, chunks |-> NoChunks]

updateProgressKeepsStatus(states, id, status, progress, error) ==
    IF id \in DOMAIN states
    THEN [states EXCEPT ![id] =
             [@ EXCEPT !.progress = progress,
                       !.error = IF error # "" THEN error ELSE @]]
    ELSE states

\* updateProgress: acts only on a document that is still tracked
updateProgress(states, id, status, progress, error) ==
    IF id \in DOMAIN states
    THEN [states EXCEPT ![id] =
             [@ EXCEPT !.status = status, !.progress = progress,
                       !.error = IF error # "" THEN error ELSE @]]
    ELSE states

\* validateFile: the message of the error it raises, "" when it raises none
validateFile(file, maxSizeBytes) ==
    IF file.stat # "ok" THEN "File validation failed"
    ELSE IF file.size = 0 THEN "File is empty"
    ELSE IF file.size > maxSizeBytes THEN "File size exceeds maximum allowed size"
    ELSE IF file.ext \notin {"pdf", "txt", "docx"} THEN "Unsupported file type"
    ELSE ""

validateSplittingConfigSizeOnly(config) ==
    IF config.chunkSize <= 0 THEN "Invalid chunk size" ELSE ""

\* validateSplittingConfig: the message of the error it raises, "" for none
validateSplittingConfig(config) ==
    IF config.chunkSize <= 0 THEN "Invalid chunk size"
    ELSE IF config.chunkOverlap < 0 THEN "Invalid chunk overlap"
    ELSE IF config.chunkOverlap >= config.chunkSize
         THEN "Chunk overlap must be less than chunk size"
    ELSE ""

\* loadDocument: the message of the error it raises, "" when it returns the
\* content (of trimmed length file.len)
loadDocument(file) ==
    IF file.stat # "ok" THEN "File not found or not accessible"
    ELSE IF file.ext \notin {"pdf", "txt", "docx"} THEN "Unsupported file type"
    ELSE IF file.load # "ok" THEN "Failed to load file"
    ELSE IF file.len = 0 THEN "document is empty"
    ELSE ""

\* splitText: the numbers of chunks it can return for a text of trimmed
\* length len; one chunk when the text fits a chunk, else what the recursive
\* splitter makes of it (chunks of at most chunkSize characters)
SplitCounts(len, config) ==
    IF len <= config.chunkSize THEN {1}
    ELSE {n \in 2 .. MaxBatch + 1 : n * config.chunkSize >= len}

CompletedStateNoMetadata(st, id, n) ==
    [st EXCEPT !.chunks = n, !.status = "completed", !.progress = 100]

\* the state entry after steps 5 and 6 of ingestDocument
CompletedState(st, id, n) ==
    [st EXCEPT !.metadata = [documentId |-> id, chunkCount |-> n],
               !.chunks = n, !.status = "completed", !.progress = 100]

getDocumentChunks(id) ==
    IF id \in DOMAIN ingestionStates THEN ingestionStates[id].chunks ELSE NoChunks

\* getAllDocuments: the metadata of the entries that have metadata and are
\* completed, in the order the entries were made
RECURSIVE AllDocumentsUpTo(_)
AllDocumentsUpTo(i) ==
    IF i = 0 THEN <<>>
    ELSE LET id == Uuid(i)
             before == AllDocumentsUpTo(i - 1)
         IN  IF /\ id \in DOMAIN ingestionStates
                /\ ingestionStates[id].metadata # NoMetadata
                /\ ingestionStates[id].status = "completed"
             THEN Append(before, ingestionStates[id].metadata)
             ELSE before

getAllDocuments == AllDocumentsUpTo(nextDocId - 1)


\* where the result of ingestDocument goes: to the caller of the class, or
\* into the rest of POST /upload: 400 for a failed ingestion, else the
\* chunks, when the document is still tracked, go to addDocuments
IngestReturn(p, result) ==
    IF pc[p].route # "upload"
    THEN Finish(p, result) /\ UNCHANGED storeVars
    ELSE IF ~result.ok
    THEN /\ Finish(p, Response("upload", result.id,
                               errorHandler("DocumentProcessingError"), 0, result.error))
         /\ UNCHANGED storeVars
    ELSE LET chunks == IF result.id \in DOMAIN ingestionStates'
                       THEN ingestionStates'[result.id].chunks
                       ELSE NoChunks
         IN  IF chunks > 0
             THEN AddBegin(p, "upload", "docs", result.id, chunks)
             ELSE /\ Finish(p, Response("upload", result.id, 201, result.count, ""))
                  /\ UNCHANGED storeVars

\* ingestDocument(filePath, config, maxFileSize), up to the fs.stat of
\* validateFile
IngestBegin(p, route, file, config) ==
    /\ nextDocId <= MaxDocs
    /\ LET id == generateDocumentId IN
        /\ ingestionStates' =
             updateProgress([d \in DOMAIN ingestionStates \cup {id} |->
                                IF d = id THEN NewState(id) ELSE ingestionStates[d]],
                            id, "processing", 10, "")
        /\ Suspend(p, [Idle EXCEPT !.op = "ingestDocument", !.at = "validate",
                                   !.route = route, !.id = id, !.file = file,
                                   !.cfg = config])
    /\ nextDocId' = nextDocId + 1
    /\ UNCHANGED <<storeVars, qaVars>>

\* ingestDocument called on the class
IngestStart(p, file, config) ==
    /\ pc[p].op = "idle"
    /\ IngestBegin(p, "none", file, config)
    /\ UNCHANGED configVars

\* the catch block of ingestDocument
IngestFail(p, message) ==
    /\ ingestionStates' = updateProgress(ingestionStates, pc[p].id, "failed", 0, message)
    /\ IngestReturn(p, [Threw("ingestDocument", "docs", pc[p].id, "returned", message)
                          EXCEPT !.ok = FALSE, !.count = 0])

\* validateFile is through; validateSplittingConfig; up to the loader's I/O
IngestValidated(p) ==
    /\ pc[p].op = "ingestDocument" /\ pc[p].at = "validate"
    /\ IF validateFile(pc[p].file, DefaultMaxFileSize) # ""
       THEN IngestFail(p, validateFile(pc[p].file, DefaultMaxFileSize))
       ELSE IF validateSplittingConfig(pc[p].cfg) # ""
       THEN IngestFail(p, validateSplittingConfig(pc[p].cfg))
       ELSE /\ ingestionStates' =
                 updateProgress(ingestionStates, pc[p].id, "processing", 40, "")
            /\ pc' = [pc EXCEPT ![p].at = "load"]
            /\ UNCHANGED <<ret, storeVars>>
    /\ UNCHANGED <<nextDocId, configVars, qaVars>>

\* the loader is through; up to the splitter
IngestLoaded(p) ==
    /\ pc[p].op = "ingestDocument" /\ pc[p].at = "load"
    /\ IF loadDocument(pc[p].file) # ""
       THEN IngestFail(p, loadDocument(pc[p].file))
       ELSE /\ ingestionStates' =
                 updateProgress(ingestionStates, pc[p].id, "processing", 70, "")
            /\ pc' = [pc EXCEPT ![p].at = "split"]
            /\ UNCHANGED <<ret, storeVars>>
    /\ UNCHANGED <<nextDocId, configVars, qaVars>>

\* splitText returns n chunks: steps 5 and 6, and the result
IngestSplit(p) ==
    /\ pc[p].op = "ingestDocument" /\ pc[p].at = "split"
    /\ \E n \in SplitCounts(pc[p].file.len, pc[p].cfg) :
         /\ ingestionStates' =
              IF pc[p].id \in DOMAIN ingestionStates
              THEN [ingestionStates EXCEPT ![pc[p].id] = CompletedState(@, pc[p].id, n)]
              ELSE ingestionStates
         /\ IngestReturn(p, Returned("ingestDocument", "docs", pc[p].id, n, TRUE))
    /\ UNCHANGED <<nextDocId, configVars, qaVars>>

\* the recursive splitter raises an error
IngestSplitFailed(p) ==
    /\ pc[p].op = "ingestDocument" /\ pc[p].at = "split"
    /\ pc[p].file.len > pc[p].cfg.chunkSize
    /\ IngestFail(p, "Failed to split text")
    /\ UNCHANGED <<nextDocId, configVars, qaVars>>

\* removeDocument(documentId)
RemoveDocument(p, id) ==
    /\ pc[p].op = "idle"
    /\ ingestionStates' = StatesAfterRemove(ingestionStates, id)
    /\ FinishNow(p, Returned("removeDocument", "docs", id, 0, id \in DOMAIN ingestionStates))
    /\ UNCHANGED <<nextDocId, storeVars, configVars, qaVars>>

\* clearAll()
ClearAll(p) ==
    /\ pc[p].op = "idle"
    /\ ingestionStates' = <<>>
    /\ FinishNow(p, Returned("clearAll", "docs", NoId, 0, TRUE))
    /\ UNCHANGED <<nextDocId, storeVars, configVars, qaVars>>

\* ----------------------------------------------------------- configuration
\* loadConfig: no configuration variable is set in the environment
loadConfig == DEFAULT_CONFIG

getConfig == IF configInstance = <<>> THEN loadConfig ELSE configInstance[1]

\* { ...currentConfig, ...updates }
Merge(currentConfig, updates) ==
    [f \in ConfigFields |-> IF f \in DOMAIN updates THEN updates[f] ELSE currentConfig[f]]

\* the range checks of updateConfig that follow the overlap check
ValidateRanges(newConfig) ==
    IF newConfig.chunkSize < 100 \/ newConfig.chunkSize > 10000
    THEN "Chunk size must be between 100 and 10000"
    ELSE IF newConfig.topK < 1 \/ newConfig.topK > 20
    THEN "topK must be between 1 and 20"
    ELSE IF newConfig.llmTemperature < 0 \/ newConfig.llmTemperature > 20
    THEN "LLM temperature must be between 0 and 2"
    ELSE IF newConfig.scoreThreshold < 0 \/ newConfig.scoreThreshold > 10
    THEN "Score threshold must be between 0 and 1"
    ELSE ""

ValidateNewConfigRangesOnly(newConfig) == ValidateRanges(newConfig)

\* the checks of updateConfig, in their order: the message of the
\* ConfigurationError raised, "" when none is
ValidateNewConfig(newConfig) ==
    IF newConfig.chunkOverlap >= newConfig.chunkSize
    THEN "Chunk overlap must be less than chunk size"
    ELSE ValidateRanges(newConfig)

ConfigAfterUpdateEager(currentConfig, newConfig, error) == newConfig

\* configInstance after updateConfig: assigned after the last check only
ConfigAfterUpdate(currentConfig, newConfig, error) ==
    IF error = "" THEN newConfig ELSE currentConfig

\* values tried for the fields of an update
FieldValues ==
    [chunkSize |-> {50, 500, 10001},
     chunkOverlap |-> {-1, 100, 600},
     topK |-> {0, 1, 21},
     llmTemperature |-> {-1, 20, 21},
     llmMaxTokens |-> {0, 1, 4001},
     scoreThreshold |-> {-1, 10, 11}]

\* Partial<RAGConfig>: at most MaxFields fields given
Updates ==
    UNION {{u \in [S -> UNION {FieldValues[f] : f \in S}] :
               \A f \in S : u[f] \in FieldValues[f]} :
           S \in {T \in SUBSET ConfigFields : Cardinality(T) <= MaxFields}}

\* updateConfig(updates)
UpdateConfig(p, updates) ==
    /\ pc[p].op = "idle"
    /\ LET currentConfig == getConfig
           newConfig == Merge(currentConfig, updates)
           error == ValidateNewConfig(newConfig)
       IN  /\ configInstance' = <<ConfigAfterUpdate(currentConfig, newConfig, error)>>
           /\ FinishNow(p, IF error = ""
                           THEN Returned("updateConfig", "docs", NoId, 0, TRUE)
                           ELSE Threw("updateConfig", "docs", NoId,
                                      "ConfigurationError", error))
    /\ UNCHANGED <<ingestVars, storeVars, qaVars>>

\* the field checks of PUT /api/config, in their order: the message of the
\* ConfigurationError raised, "" when none is
ValidateUpdates(updates) ==
    LET given(f) == f \in DOMAIN updates
    IN  IF given("chunkSize") /\ (updates.chunkSize < 100 \/ updates.chunkSize > 10000)
        THEN "chunkSize must be a number between 100 and 10000"
        ELSE IF given("chunkOverlap")
                /\ (updates.chunkOverlap < 0 \/ updates.chunkOverlap > 5000)
        THEN "chunkOverlap must be a number between 0 and 5000"
        ELSE IF given("topK") /\ (updates.topK < 1 \/ updates.topK > 20)
        THEN "topK must be a number between 1 and 20"
        ELSE IF given("llmTemperature")
                /\ (updates.llmTemperature < 0 \/ updates.llmTemperature > 20)
        THEN "llmTemperature must be a number between 0 and 2"
        ELSE IF given("llmMaxTokens")
                /\ (updates.llmMaxTokens < 1 \/ updates.llmMaxTokens > 4000)
        THEN "llmMaxTokens must be a number between 1 and 4000"
        ELSE IF given("scoreThreshold")
                /\ (updates.scoreThreshold < 0 \/ updates.scoreThreshold > 10)
        THEN "scoreThreshold must be a number between 0 and 1"
        ELSE ""

\* PUT /api/config: the fields of the body are checked one by one, then
\* updateConfig(validatedUpdates); a ConfigurationError reaches the error
\* handler as a plain Error
ConfigRoute(p, updates) ==
    /\ pc[p].op = "idle"
    /\ IF ValidateUpdates(updates) # ""
       THEN /\ FinishNow(p, Response("putConfig", NoId, errorHandler("ConfigurationError"),
                                     0, ValidateUpdates(updates)))
            /\ UNCHANGED configVars
       ELSE LET currentConfig == getConfig
                newConfig == Merge(currentConfig, updates)
                error == ValidateNewConfig(newConfig)
            IN  /\ configInstance' = <<ConfigAfterUpdate(currentConfig, newConfig, error)>>
                /\ FinishNow(p, IF error = ""
                                THEN Response("putConfig", NoId, 200, 0, "")
                                ELSE Response("putConfig", NoId,
                                              errorHandler("ConfigurationError"), 0, error))
    /\ UNCHANGED <<ingestVars, storeVars, qaVars>>

\* getConfig()
GetConfig(p) ==
    /\ pc[p].op = "idle"
    /\ configInstance' = <<getConfig>>
    /\ FinishNow(p, Returned("getConfig", "docs", NoId, 0, TRUE))
    /\ UNCHANGED <<ingestVars, storeVars, qaVars>>

\* resetConfig()
ResetConfig(p) ==
    /\ pc[p].op = "idle"
    /\ configInstance' = <<>>
    /\ FinishNow(p, Returned("resetConfig", "docs", NoId, 0, TRUE))
    /\ UNCHANGED <<ingestVars, storeVars, qaVars>>

\* ---------------------------------------------------------------- QAEngine
NoTopK == -1
Questions == {"", Blank, "q"}
AskOps == {"askQuestion", "askWithHistory"}

\* !question || question.trim() === ""
IsBlankQuestion(question) == question = "" \/ question = Blank

\* qaConfig: config?.field ?? ragConfig.field
MergeQAConfig(config, ragConfig) ==
    [topK |-> IF "topK" \in DOMAIN config THEN config.topK ELSE ragConfig.topK,
     temperature |-> IF "temperature" \in DOMAIN config
                     THEN config.temperature ELSE ragConfig.llmTemperature,
     maxTokens |-> IF "maxTokens" \in DOMAIN config
                   THEN config.maxTokens ELSE ragConfig.llmMaxTokens]

\* config?.temperature !== undefined || config?.maxTokens !== undefined
OverridesClient(config) ==
    "temperature" \in DOMAIN config \/ "maxTokens" \in DOMAIN config

WrapErrorRethrowAll(class) == class

\* the catch block of askQuestion and askWithHistory: RetrievalError and
\* LLMError are rethrown, anything else is wrapped in an LLMError
WrapError(class) ==
    IF class \in {"RetrievalError", "LLMError"} THEN class ELSE "LLMError"

\* where the result of an ask goes: to the caller of the class, or into the
\* response of POST /ask
AskReturn(p, route, now, result) ==
    IF route = "ask"
    THEN Out(p, now, IF result.outcome = "returned"
                     THEN [Response("ask", NoId, 200, result.count, "")
                              EXCEPT !.sources = result.sources]
                     ELSE Response("ask", NoId, errorHandler(result.outcome), 0,
                                   result.error))
    ELSE Out(p, now, result)

\* outcome of an ask: with the question asked and the client that answered
AskResult(result, question, client) ==
    [result EXCEPT !.question = question, !.client = client]

\* the chain an operation of the engine over manager m uses
ChainOf(op, m) ==
    IF op = "askQuestion" THEN qaChain[m] ELSE conversationalChain[m]

\* askQuestion / askWithHistory(question, config) up to the embedding of the
\* question.  The question is validated; the configuration is merged; a
\* temperature or maxTokens override replaces this.llm; the chain is built
\* if the engine has none, bound to the store object the manager holds then,
\* to the k of this call and to this.llm as it is then.  initOk = FALSE: the
\* initialisation of the store fails while the chain is built.
AskBegin(p, route, m, op, question, config, initOk) ==
    LET qaConfig == MergeQAConfig(config, getConfig)
        newLlm == IF OverridesClient(config)
                  THEN Client(qaConfig.temperature, qaConfig.maxTokens)
                  ELSE llm[m]
        built == [store |-> initializeStore(m)[m], k |-> qaConfig.topK,
                  llm |-> newLlm]
        chain == IF ChainOf(op, m) = NoChain THEN built ELSE ChainOf(op, m)
    IN  IF IsBlankQuestion(question)
        THEN /\ AskReturn(p, route, TRUE,
                          AskResult(Threw(op, m, NoId, WrapError("RetrievalError"),
                                          "Question cannot be empty"),
                                    question, NoClient))
             /\ UNCHANGED <<configVars, storeVars, ingestVars, qaVars>>
        ELSE /\ configInstance' = <<getConfig>>
             /\ llm' = [llm EXCEPT ![m] = newLlm]
             /\ UNCHANGED <<documentRegistry, added, ingestVars>>
             /\ IF ChainOf(op, m) = NoChain /\ ~initOk
                THEN /\ AskReturn(p, route, TRUE,
                                  AskResult(Threw(op, m, NoId, WrapError("LLMError"),
                                                  "Failed to initialize QA chain"),
                                            question, NoClient))
                     /\ UNCHANGED <<vectorStore, stores, qaChain, conversationalChain>>
                ELSE /\ vectorStore' = IF ChainOf(op, m) = NoChain
                                       THEN initializeStore(m) ELSE vectorStore
                     /\ qaChain' = IF op = "askQuestion"
                                   THEN [qaChain EXCEPT ![m] = chain] ELSE qaChain
                     /\ conversationalChain' =
                            IF op = "askWithHistory"
                            THEN [conversationalChain EXCEPT ![m] = chain]
                            ELSE conversationalChain
                     /\ UNCHANGED stores
                     /\ Suspend(p, [Idle EXCEPT !.op = op, !.at = "retrieve",
                                                !.route = route, !.m = m,
                                                !.target = chain.store, !.n = chain.k,
                                                !.client = chain.llm,
                                                !.question = question,
                                                !.config = config,
                                                !.qaConfig = qaConfig])

\* askQuestion(question, config) or askWithHistory(question, [], config) on
\* the engine over manager m
AskStart(p, m, op, question, config, initOk) ==
    /\ pc[p].op = "idle"
    /\ CanInitialize(m)
    /\ initOk \/ (ChainOf(op, m) = NoChain /\ ~IsBlankQuestion(question))
    /\ AskBegin(p, "none", m, op, question, config, initOk)

\* the retriever of the chain returns the k most similar chunks of its store
AskRetrieved(p) ==
    /\ pc[p].op \in AskOps /\ pc[p].at = "retrieve"
    /\ \E context \in SimilaritySearchResults(stores[pc[p].target], pc[p].n) :
         pc' = [pc EXCEPT ![p].at = "generate", ![p].rest = context]
    /\ UNCHANGED <<ret, storeVars, ingestVars, configVars, qaVars>>

\* the model answers: the sources are the retrieved chunks
AskAnswered(p) ==
    /\ pc[p].op \in AskOps /\ pc[p].at = "generate"
    /\ AskReturn(p, pc[p].route, FALSE,
                 AskResult([Returned(pc[p].op, pc[p].m, NoId, Total(pc[p].rest), TRUE)
                               EXCEPT !.sources = pc[p].rest],
                           pc[p].question, pc[p].client))
    /\ UNCHANGED <<vectorStore, documentRegistry, added, ingestVars, configVars, qaVars>>
    /\ stores' = Collect(stores, vectorStore', chainStores', pc')

\* the embedding service or the model fails
AskFailed(p) ==
    /\ pc[p].op \in AskOps
    /\ AskReturn(p, pc[p].route, FALSE,
                 AskResult(Threw(pc[p].op, pc[p].m, NoId, WrapError("Error"),
                                 "Failed to process question"),
                           pc[p].question, NoClient))
    /\ UNCHANGED <<vectorStore, documentRegistry, added, ingestVars, configVars, qaVars>>
    /\ stores' = Collect(stores, vectorStore', chainStores', pc')

\* ------------------------------------------------- the response of an ask
\* A retrieved chunk is represented by its metadata: documentId, chunkIndex
\* and score, each present or not; the score and the relevanceScore are in
\* tenths.  A number that need not be whole (the confidence) is a fraction
\* <<numerator, denominator>> with a positive denominator.
Metadatas ==
    {[f \in {} |-> 0],
     [documentId |-> "A", chunkIndex |-> 0, score |-> 0],
     [documentId |-> "A", chunkIndex |-> 2, score |-> 5],
     [documentId |-> "", score |-> 12],
     [documentId |-> "B", chunkIndex |-> 1],
     [documentId |-> "B", chunkIndex |-> 0, score |-> -3]}

\* result.context: the chunks a chain hands back, in retrieval order
Contexts == UNION {[1 .. n -> Metadatas] : n \in 0 .. MaxContext}

\* Math.min and Math.max on fractions
MathMin(a, b) == IF a[1] * b[2] <= b[1] * a[2] THEN a ELSE b
MathMax(a, b) == IF a[1] * b[2] >= b[1] * a[2] THEN a ELSE b

formatSourceDocumentsFalsyScore(documents) ==
    [i \in 1 .. Len(documents) |->
        LET metadata == documents[i]
            index == i - 1
        IN  [documentId |-> IF "documentId" \in DOMAIN metadata /\ metadata.documentId # ""
                            THEN metadata.documentId
                            ELSE "unknown_" \o ToString(index),
             chunkIndex |-> IF "chunkIndex" \in DOMAIN metadata
                            THEN metadata.chunkIndex ELSE index,
             relevanceScore |-> IF "score" \in DOMAIN metadata /\ metadata.score # 0
                                THEN metadata.score ELSE 10]]

\* formatSourceDocuments: documents.map((doc, index) => ...), index counted
\* from 0; documentId: metadata.documentId || `unknown_${index}`;
\* chunkIndex: metadata.chunkIndex ?? index; relevanceScore:
\* metadata.score ?? 1.0 (filename and content are not modelled)
formatSourceDocuments(documents) ==
    [i \in 1 .. Len(documents) |->
        LET metadata == documents[i]
            index == i - 1
        IN  [documentId |-> IF "documentId" \in DOMAIN metadata /\ metadata.documentId # ""
                            THEN metadata.documentId
                            ELSE "unknown_" \o ToString(index),
             chunkIndex |-> IF "chunkIndex" \in DOMAIN metadata
                            THEN metadata.chunkIndex ELSE index,
             relevanceScore |-> IF "score" \in DOMAIN metadata
                                THEN metadata.score ELSE 10]]

calculateConfidenceUnclamped(documents) ==
    LET scored == {i \in 1 .. Len(documents) : "score" \in DOMAIN documents[i]}
    IN  IF Len(documents) = 0 THEN <<0, 1>>
        ELSE IF scored # {}
        THEN <<SumOver([i \in scored |-> documents[i].score], scored),
               10 * Cardinality(scored)>>
        ELSE <<MathMin(<<Len(documents), 4>>, <<1, 1>>)[1] * 8,
               MathMin(<<Len(documents), 4>>, <<1, 1>>)[2] * 10>>

\* calculateConfidence: 0 for no document; the mean of the scores present,
\* brought into [0, 1]; without scores min(length / 4, 1) * 0.8
calculateConfidence(documents) ==
    LET scored == {i \in 1 .. Len(documents) : "score" \in DOMAIN documents[i]}
        avgScore == <<SumOver([i \in scored |-> documents[i].score], scored),
                      10 * Cardinality(scored)>>
        baseConfidence == MathMin(<<Len(documents), 4>>, <<1, 1>>)
    IN  IF Len(documents) = 0 THEN <<0, 1>>
        ELSE IF scored # {}
        THEN MathMin(<<1, 1>>, MathMax(<<0, 1>>, avgScore))
        ELSE <<baseConfidence[1] * 8, baseConfidence[2] * 10>>

\* askQuestion from the return of qaChain.invoke: the response is built
\* from result.context
Respond(p) ==
    /\ pc[p].op = "askQuestion" /\ pc[p].at = "respond"
    /\ Finish(p, [Returned("askQuestion", pc[p].m, NoId,
                           Len(pc[p].sourceDocuments), TRUE)
                     EXCEPT !.formatted = formatSourceDocuments(pc[p].sourceDocuments),
                            !.confidence = calculateConfidence(pc[p].sourceDocuments)])
    /\ UNCHANGED <<configVars, qaVars, storeVars, ingestVars>>

\* ------------------------------------------------------------ textSplitter
\* String.prototype.trim on a text of blanks and letters
trim(text) ==
    LET kept == {i \in 1 .. Len(text) : text[i] # Blank}
    IN  IF kept = {} THEN <<>>
        ELSE SubSeq(text, CHOOSE i \in kept : \A j \in kept : i <= j,
                          CHOOSE i \in kept : \A j \in kept : j <= i)

\* {...metadata, chunkIndex: index, totalChunks: total}
WithIndex(metadata, index, total) ==
    [k \in DOMAIN metadata \cup {"chunkIndex", "totalChunks"} |->
        IF k = "chunkIndex" THEN index
        ELSE IF k = "totalChunks" THEN total
        ELSE metadata[k]]

splitTextUntrimmed(text, config, metadata) ==
    IF trim(text) = <<>>
    THEN Threw("splitText", "docs", NoId, "DocumentProcessingError",
               "Cannot split empty document")
    ELSE IF Len(text) <= config.chunkSize
    THEN [Returned("splitText", "docs", NoId, 1, TRUE)
            EXCEPT !.results = <<[pageContent |-> text,
                                  metadata |-> WithIndex(metadata, 0, 1)]>>]
    ELSE NoRet

\* splitText before the recursive splitter: the error for a text that is
\* empty once trimmed, the single chunk of a text that fits in chunkSize,
\* or (NoRet) nothing yet
splitText(text, config, metadata) ==
    IF trim(text) = <<>>
    THEN Threw("splitText", "docs", NoId, "DocumentProcessingError",
               "Cannot split empty document")
    ELSE IF Len(trim(text)) <= config.chunkSize
    THEN [Returned("splitText", "docs", NoId, 1, TRUE)
            EXCEPT !.results = <<[pageContent |-> trim(text),
                                  metadata |-> WithIndex(metadata, 0, 1)]>>]
    ELSE NoRet

\* splitText(text, config, metadata) up to its return or to the call of
\* textSplitter.createDocuments
SplitText(p) ==
    /\ pc[p].op = "splitText" /\ pc[p].at = "start"
    /\ LET result == splitText(pc[p].text, pc[p].cfg, pc[p].metadata)
       IN  IF result.call = "none"
           THEN /\ pc' = [pc EXCEPT ![p].at = "createDocuments"]
                /\ UNCHANGED ret
           ELSE Finish(p, result)
    /\ UNCHANGED <<configVars, qaVars, storeVars, ingestVars>>

\* createDocuments returns: some pieces of the trimmed text, none longer
\* than chunkSize, which splitText numbers
SplitDocuments(p) ==
    /\ pc[p].op = "splitText" /\ pc[p].at = "createDocuments"
    /\ LET trimmedText == trim(pc[p].text)
           pieces == {SubSeq(trimmedText, i, j) : i, j \in 1 .. Len(trimmedText)}
       IN  \E n \in 1 .. Len(trimmedText) :
             \E documents \in [1 .. n -> {d \in pieces : /\ d # <<>>
                                                         /\ Len(d) <= pc[p].cfg.chunkSize}] :
               Finish(p, [Returned("splitText", "docs", NoId, n, TRUE)
                            EXCEPT !.results =
                               [i \in 1 .. n |->
                                   [pageContent |-> documents[i],
                                    metadata |-> WithIndex(pc[p].metadata, i - 1, n)]]])
    /\ UNCHANGED <<configVars, qaVars, storeVars, ingestVars>>

\* createDocuments throws: the error is wrapped
SplitDocumentsFailed(p) ==
    /\ pc[p].op = "splitText" /\ pc[p].at = "createDocuments"
    /\ Finish(p, Threw("splitText", "docs", NoId, "DocumentProcessingError",
                       "Failed to split text"))
    /\ UNCHANGED <<configVars, qaVars, storeVars, ingestVars>>

\* ------------------------------------------------------- frontend API client
\* the calls of documentApi and qaApi, each wrapped in retryRequest
ClientCalls == {"documentApi.upload", "documentApi.list", "documentApi.delete",
                "qaApi.ask", "qaApi.chat"}

\* how a request can end: a response with a status, or none (Null)
Statuses == {200, 201, 400, 404, 500, 503, Null}

\* the error axios raises for a failed request; response is Null when no
\* response arrived
AxiosError(status) == [isAxiosError |-> TRUE, response |-> status]

\* the response interceptor of api: a failure is rejected as
\* new Error(String(message)), an object without isAxiosError or response
interceptor(error) == [isAxiosError |-> FALSE, response |-> Null]

\* the catch block of retryRequest: TRUE when the request is tried again
retryRequest(error, retries) ==
    /\ retries > 0 /\ error.isAxiosError
    /\ \/ error.response = Null
       \/ error.response >= 500 /\ error.response < 600

\* documentApi.x(...) or qaApi.x(...): retryRequest(fn) calls fn, which
\* sends the request
ClientCall(p, call) ==
    /\ pc[p].op = "idle"
    /\ Suspend(p, [Idle EXCEPT !.op = call, !.at = "request", !.n = MAX_RETRIES])
    /\ UNCHANGED <<configVars, qaVars, storeVars, ingestVars>>

\* the promise retryRequest awaits settles: the request ends with a status
\* (a failure passes through the interceptor into the catch block), or the
\* timer of RETRY_DELAY fires and fn is called again
ClientSettle(p, status) ==
    /\ pc[p].op \in ClientCalls
    /\ IF pc[p].at = "delay"
       THEN /\ pc' = [pc EXCEPT ![p].at = "request"]
            /\ UNCHANGED ret
       ELSE LET attempts == MAX_RETRIES - pc[p].n + 1
                error == interceptor(AxiosError(status))
            IN  IF status # Null /\ status < 300
                THEN Finish(p, [Returned(pc[p].op, "docs", NoId, attempts, TRUE)
                                  EXCEPT !.status = status])
                ELSE IF retryRequest(error, pc[p].n)
                THEN /\ pc' = [pc EXCEPT ![p].at = "delay", ![p].n = @ - 1]
                     /\ UNCHANGED ret
                ELSE Finish(p, [Threw(pc[p].op, "docs", NoId, "Error", "")
                                  EXCEPT !.status = status, !.count = attempts])
    /\ UNCHANGED <<configVars, qaVars, storeVars, ingestVars>>

\* ------------------------------------------------------------------ routes
\* files multer has written to the upload directory
UploadFiles == {f \in Files : f.stat = "ok"}

\* POST /api/documents/upload: multer's fileFilter and size limit, then
\* ingestDocument with the current configuration
UploadRoute(p, file) ==
    /\ pc[p].op = "idle"
    /\ IF file.ext \notin {"pdf", "txt", "docx"}
       THEN /\ FinishNow(p, Response("upload", NoId, 500, 0, "Invalid file type"))
            /\ UNCHANGED <<configVars, ingestVars, storeVars, qaVars>>
       ELSE IF file.size > DefaultMaxFileSize
       THEN /\ FinishNow(p, Response("upload", NoId, 400, 0, "File too large"))
            /\ UNCHANGED <<configVars, ingestVars, storeVars, qaVars>>
       ELSE /\ configInstance' = <<getConfig>>
            /\ IngestBegin(p, "upload", file, getConfig)

\* DELETE /api/documents/:id
DeleteRoute(p, id) ==
    /\ pc[p].op = "idle"
    /\ DelBegin(p, "delete", "docs", id, FALSE)
    /\ UNCHANGED <<nextDocId, configVars, qaVars>>

\* POST /api/qa/ask: the question and the topK override are validated, then
\* askQuestion on the engine of qa.routes.ts
AskRoute(p, question, topK) ==
    /\ pc[p].op = "idle"
    /\ IF IsBlankQuestion(question)
       THEN /\ FinishNow(p, Response("ask", NoId, errorHandler("RetrievalError"), 0,
                                     "Question is required"))
            /\ UNCHANGED <<configVars, ingestVars, storeVars, qaVars>>
       ELSE IF topK # NoTopK /\ (topK < 1 \/ topK > 20)
       THEN /\ FinishNow(p, Response("ask", NoId, errorHandler("RetrievalError"), 0,
                                     "topK must be a number between 1 and 20"))
            /\ UNCHANGED <<configVars, ingestVars, storeVars, qaVars>>
       ELSE /\ CanInitialize("qa")
            /\ AskBegin(p, "ask", "qa", "askQuestion", question,
                        IF topK = NoTopK THEN NoConfig ELSE [f \in {"topK"} |-> topK],
                        TRUE)

\* GET /api/documents
ListDocuments == getAllDocuments

Init ==
    /\ configInstance = <<>>
    /\ qaChain = [m \in Managers |-> NoChain]
    /\ conversationalChain = [m \in Managers |-> NoChain]
    /\ llm = [m \in Managers |-> Client(loadConfig.llmTemperature,
                                          loadConfig.llmMaxTokens)]
    /\ ingestionStates = <<>>
    /\ nextDocId = 1
    /\ vectorStore = [m \in Managers |-> Null]
    /\ stores = [s \in Slots |-> EmptyContent]
    /\ documentRegistry = [m \in Managers |-> <<>>]
    /\ pc = [p \in Procs |-> Idle]
    /\ ret = [p \in Procs |-> NoRet]
    /\ added = [m \in Managers |-> EmptyContent]

\* an askQuestion whose chain has just returned result.context
InitResponse ==
    /\ configInstance = <<>>
    /\ qaChain = [m \in Managers |-> NoChain]
    /\ conversationalChain = [m \in Managers |-> NoChain]
    /\ llm = [m \in Managers |-> Client(loadConfig.llmTemperature,
                                          loadConfig.llmMaxTokens)]
    /\ ingestionStates = <<>>
    /\ nextDocId = 1
    /\ vectorStore = [m \in Managers |-> Null]
    /\ stores = [s \in Slots |-> EmptyContent]
    /\ documentRegistry = [m \in Managers |-> <<>>]
    /\ \E context \in Contexts :
          pc = [p \in Procs |->
                  IF p = 1
                  THEN [Idle EXCEPT !.op = "askQuestion", !.at = "respond",
                                    !.m = "lib", !.sourceDocuments = context]
                  ELSE Idle]
    /\ ret = [p \in Procs |-> NoRet]
    /\ added = [m \in Managers |-> EmptyContent]

NextResponse == \E p \in Procs : Respond(p)

\* a call of splitText on a text of at most MaxText blanks and letters, with
\* metadata that has or has not the keys splitText sets
InitSplit ==
    /\ configInstance = <<>>
    /\ qaChain = [m \in Managers |-> NoChain]
    /\ conversationalChain = [m \in Managers |-> NoChain]
    /\ llm = [m \in Managers |-> Client(loadConfig.llmTemperature,
                                          loadConfig.llmMaxTokens)]
    /\ ingestionStates = <<>>
    /\ nextDocId = 1
    /\ vectorStore = [m \in Managers |-> Null]
    /\ stores = [s \in Slots |-> EmptyContent]
    /\ documentRegistry = [m \in Managers |-> <<>>]
    /\ \E len \in 0 .. MaxText, size \in 1 .. MaxText :
         \E text \in [1 .. len -> {Blank, "a"}],
            metadata \in {[documentId |-> "A"],
                          [documentId |-> "A", chunkIndex |-> 7, totalChunks |-> 9]} :
             pc = [p \in Procs |->
                     IF p = 1
                     THEN [Idle EXCEPT !.op = "splitText", !.at = "start",
                                       !.text = text, !.cfg = Chunking(size, 0),
                                       !.metadata = metadata]
                     ELSE Idle]
    /\ ret = [p \in Procs |-> NoRet]
    /\ added = [m \in Managers |-> EmptyContent]

\* calls of the frontend client, each request ending in any of the ways
NextClient ==
    \E p \in Procs :
        \/ \E call \in ClientCalls : ClientCall(p, call)
        \/ \E status \in Statuses : ClientSettle(p, status)

NextSplit ==
    \E p \in Procs : SplitText(p) \/ SplitDocuments(p) \/ SplitDocumentsFailed(p)

\* calls made directly on a VectorStoreManager
ApiCall(p) ==
    \/ \E id \in ApiKeys, n \in BatchSizes : AddStart(p, "lib", id, n)
    \/ \E id \in ApiKeys : DelStart(p, "lib", id, TRUE)
    \/ ClearStore(p, "lib")

StoreStep(p) ==
    \/ AddEmbedded(p)
    \/ AddFailed(p)
    \/ DelScanned(p)
    \/ DelScanFailed(p)
    \/ DelRebuilt(p)
    \/ DelRebuildFailed(p)

\* the class interface, calls running one at a time: a single caller, whose
\* next call starts when its last one is through
NextApiSerial == \E p \in {1} : ApiCall(p) \/ StoreStep(p)

\* the class interface, calls running one at a time, the embedding service
\* never failing
NextApiOk ==
    \E p \in {1} : ApiCall(p) \/ AddEmbedded(p) \/ DelScanned(p) \/ DelRebuilt(p)

\* the class interface, a call may start while another is suspended
ApiCallSmall(p) ==
    \/ \E id \in CallerIds, n \in 0 .. MaxBatch : AddStart(p, "lib", id, n)
    \/ \E id \in CallerIds : DelStart(p, "lib", id, FALSE)
    \/ ClearStore(p, "lib")

NextApi == \E p \in Procs : ApiCallSmall(p) \/ StoreStep(p)

\* searches on a VectorStoreManager between additions and deletions, the
\* calls running one at a time
NextSearch ==
    \E p \in {1} :
        \/ \E id \in CallerIds, n \in {1, FullScanK} : AddStart(p, "lib", id, n)
        \/ \E id \in CallerIds : DelStart(p, "lib", id, FALSE)
        \/ ClearStore(p, "lib")
        \/ \E op \in SearchOps, query \in {"", Blank, "q", "r"}, k \in 0 .. MaxSmall + 1 :
              SearchStart(p, "lib", op, query, k)
        \/ \E id \in CallerIds \cup {NoId}, query \in {"", "q", "r"}, k \in 0 .. MaxSmall :
              WithinStart(p, "lib", id, query, k)
        \/ GetStoreStats(p, "lib")
        \/ StoreStep(p) \/ SearchDone(p) \/ SearchFailed(p)

\* calls made directly on a DocumentIngestionService
IngestCall(p) ==
    \/ \E file \in Files, config \in Chunkings : IngestStart(p, file, config)
    \/ \E id \in MintedIds : RemoveDocument(p, id)
    \/ ClearAll(p)

IngestStep(p) ==
    \/ IngestValidated(p)
    \/ IngestLoaded(p)
    \/ IngestSplit(p)
    \/ IngestSplitFailed(p)

NextIngest == \E p \in Procs : IngestCall(p) \/ IngestStep(p)

\* calls made on the configuration module (synchronous)
NextConfig ==
    \E p \in {1} :
        \/ \E updates \in Updates : UpdateConfig(p, updates)
        \/ \E updates \in Updates : ConfigRoute(p, updates)
        \/ GetConfig(p)
        \/ ResetConfig(p)

AskStep(p) ==
    \/ AskRetrieved(p)
    \/ AskAnswered(p)
    \/ AskFailed(p)

\* values tried for the fields of the config argument of an ask
QAConfigValues == [topK |-> {1}, temperature |-> {7}]

\* Partial<QAConfig>: at most MaxOverrides fields given
QAConfigs ==
    UNION {{c \in [S -> UNION {QAConfigValues[f] : f \in S}] :
               \A f \in S : c[f] \in QAConfigValues[f]} :
           S \in {T \in SUBSET DOMAIN QAConfigValues : Cardinality(T) <= MaxOverrides}}

\* askQuestion and askWithHistory calls on the engine over manager "lib"
AskCall(p, ops) ==
    \E op \in ops, question \in Questions, config \in QAConfigs, initOk \in BOOLEAN :
        AskStart(p, "lib", op, question, config, initOk)

\* calls made one at a time on a QAEngine that answers single questions, on
\* the VectorStoreManager it was built over and on the configuration module
NextQA ==
    \E p \in {1} :
        \/ \E id \in CallerIds : AddStart(p, "lib", id, 1) \/ DelStart(p, "lib", id, FALSE)
        \/ ClearStore(p, "lib")
        \/ AskCall(p, {"askQuestion"})
        \/ \E topK \in QAConfigValues.topK :
              UpdateConfig(p, [f \in {"topK"} |-> topK])
        \/ StoreStep(p) \/ AskStep(p)

\* questions with and without history asked while documents are added, a
\* question starting while another is being answered
NextChat ==
    \E p \in Procs :
        \/ AddStart(p, "lib", "A", 1)
        \/ AskCall(p, AskOps)
        \/ AddEmbedded(p) \/ AddFailed(p) \/ AskStep(p)

\* requests to the server
Request(p) ==
    \/ \E file \in UploadFiles : UploadRoute(p, file)
    \/ \E id \in MintedIds : DeleteRoute(p, id)
    \/ \E question \in Questions, topK \in {NoTopK, 1, 21} : AskRoute(p, question, topK)

Next == \E p \in Procs : Request(p) \/ IngestStep(p) \/ StoreStep(p) \/ AskStep(p)

\* uploads and deletions only, the id of a deletion being any path segment:
\* an id the server minted or a blank one
NextDelete ==
    \E p \in Procs :
        \/ \E file \in UploadFiles : UploadRoute(p, file)
        \/ \E id \in MintedIds \cup {Blank} : DeleteRoute(p, id)
        \/ IngestStep(p) \/ StoreStep(p)

Spec == Init /\ [][Next]_vars
SpecIngest == Init /\ [][NextIngest]_vars
SpecConfig == Init /\ [][NextConfig]_vars
SpecApiSerial == Init /\ [][NextApiSerial]_vars
SpecApi == Init /\ [][NextApi]_vars
SpecApiOk == Init /\ [][NextApiOk]_vars
SpecQA == Init /\ [][NextQA]_vars
SpecChat == Init /\ [][NextChat]_vars
SpecSearch == Init /\ [][NextSearch]_vars
SpecDelete == Init /\ [][NextDelete]_vars
SpecSplit == InitSplit /\ [][NextSplit]_vars
SpecClient == Init /\ [][NextClient]_vars
SpecResponse == InitResponse /\ [][NextResponse]_vars

\* ======================================================================
\* Properties
\* ======================================================================

\* process p finishes a call in this step
Completes(p) ==
    /\ ret'[p].call # "none"
    /\ ret'[p] # ret[p] \/ pc[p].op # "idle"

\* C1: upload and ask work on one index: when the only document uploaded is
\* a one-chunk document d and no other request is running, the retrieval of
\* an ask returns exactly that chunk of d.
C1_AskRetrievesUploadedChunks ==
    [][\A p \in Procs, d \in MintedIds :
         ( /\ pc[p].op = "askQuestion" /\ pc[p].route = "ask"
           /\ pc[p].at = "retrieve" /\ pc'[p].at = "generate"
           /\ documentRegistry["docs"] = (d :> 1)
           /\ \A q \in Procs \ {p} : pc[q].op = "idle" )
         => pc'[p].rest = Plus(EmptyContent, d, 1)]_vars

\* C2: for every documentId present in the registry, deleteDocument returns
\* true and afterwards hasDocument is false, getDocumentChunkCount is 0 and
\* the store holds no chunk of that document (calls that the embedding
\* service fails are left aside).
C2_DeleteOfRegisteredIdReturnsTrue ==
    [][\A p \in Procs, m \in Managers, id \in DocKeys :
         ( /\ Completes(p)
           /\ ret'[p].call = "deleteDocument" /\ ret'[p].m = m /\ ret'[p].id = id
           /\ hasDocument(m, id)
           /\ ret'[p].error # BackendFailure )
         => /\ ret'[p].outcome = "returned" /\ ret'[p].ok
            /\ ~hasDocument(m, id)'
            /\ getDocumentChunkCount(m, id)' = 0
            /\ Content(m)'[id] = 0]_vars

\* C3: a deleteDocument(A) that returns true leaves, for every other
\* document B, the chunks of B in the store and the registry entry of B as
\* they were when the call started, whatever the number of chunks indexed.
C3_DeleteRemovesOnlyThatDocument ==
    [][\A p \in Procs, m \in Managers, id \in DocKeys :
         ( /\ Completes(p)
           /\ ret'[p] = Returned("deleteDocument", m, id, 0, TRUE) )
         => \A b \in (CallerIds \cup MintedIds) \ {id} :
              /\ Content(m)'[b] = pc[p].preContent[b]
              /\ hasDocument(m, b)' <=> b \in DOMAIN pc[p].preReg
              /\ b \in DOMAIN pc[p].preReg =>
                    getDocumentChunkCount(m, b)' = pc[p].preReg[b]]_vars

C5_ChunkCountIsChunksAdded ==
    /\ [](\A m \in Managers, id \in DocKeys \ {NoId} :
            getDocumentChunkCount(m, id) = added[m][id])
    /\ [][\A p \in Procs, m \in Managers :
            ( /\ Completes(p)
              /\ ret'[p].call = "addDocuments" /\ ret'[p].m = m
              /\ pc[p].op = "idle" )
            => /\ ret'[p].outcome = "returned" /\ ret'[p].count = 0
               /\ documentRegistry' = documentRegistry
               /\ Content(m)' = Content(m)]_vars

\* the same chunk added twice is counted twice
C5_Witness ==
    /\ getDocumentChunkCount("lib", "A") = 2 * MaxBatch
    /\ \E p \in Procs : ret[p] = Returned("addDocuments", "lib", "A", MaxBatch, TRUE)

\* C6: nothing keeps addDocuments(B) and deleteDocument(A) apart: when the
\* two calls overlapped and both returned successfully, the registry
\* reports B with all the chunks of the call, while (the witness) the store
\* the manager holds has none of them.
C6_OverlappingAddIsRegistered ==
    \A p, q \in Procs, a, b \in DocKeys :
        ( /\ p # q /\ a # b
          /\ ret[p].call = "addDocuments" /\ ret[p].outcome = "returned"
          /\ ret[p].id = b /\ ret[p].m = "lib" /\ ret[p].count > 0
          /\ ret[q] = Returned("deleteDocument", "lib", a, 0, TRUE)
          /\ \A r \in Procs \ {p, q} : ret[r] = NoRet )
        => /\ hasDocument("lib", b)
           /\ getDocumentChunkCount("lib", b) >= ret[p].count

C6_Witness ==
    \E p, q \in Procs :
        /\ p # q
        /\ ret[p] = Returned("addDocuments", "lib", "B", MaxBatch, TRUE)
        /\ ret[q] = Returned("deleteDocument", "lib", "A", 0, TRUE)
        /\ hasDocument("lib", "B")
        /\ Content("lib")["B"] = 0

\* C7: ingestDocument never throws: every call returns an IngestResult; a
\* missing, empty, oversized, unsupported, unreadable or blank file and an
\* invalid chunking config make it fail; a failed result has success false,
\* chunkCount 0 and the error message, and the document, while it is
\* tracked, has status failed with that message.
C7_IngestNeverThrows ==
    [][\A p \in Procs :
         ( Completes(p) /\ ret'[p].call = "ingestDocument" )
         => /\ ret'[p].outcome = "returned"
            /\ (pc[p].file \in BadFiles \/ pc[p].cfg # DefaultChunking) => ~ret'[p].ok
            /\ ~ret'[p].ok =>
                 /\ ret'[p].count = 0
                 /\ ret'[p].error # ""
                 /\ ret'[p].id \in DOMAIN ingestionStates' =>
                      /\ ingestionStates'[ret'[p].id].status = "failed"
                      /\ ingestionStates'[ret'[p].id].error = ret'[p].error]_vars

C7_Witness ==
    \E p \in Procs :
        /\ ret[p].call = "ingestDocument" /\ ~ret[p].ok
        /\ ret[p].error = "Failed to split text"
        /\ ret[p].id \in DOMAIN ingestionStates
        /\ ingestionStates[ret[p].id].status = "failed"

\* C8: a tracked document starts as processing, goes from processing to
\* completed or to failed only, and once completed or failed keeps its
\* status and progress in every later step (or is removed).
C8_StatusIsFinal ==
    [][\A id \in MintedIds :
         /\ (id \in DOMAIN ingestionStates /\ id \in DOMAIN ingestionStates') =>
              /\ ingestionStates[id].status \in {"completed", "failed"} =>
                    /\ ingestionStates'[id].status = ingestionStates[id].status
                    /\ ingestionStates'[id].progress = ingestionStates[id].progress
              /\ ingestionStates'[id].status \in {"processing", "completed", "failed"}
         /\ (id \notin DOMAIN ingestionStates /\ id \in DOMAIN ingestionStates') =>
              ingestionStates'[id].status = "processing"]_vars

C8_Witness ==
    \E a, b \in DOMAIN ingestionStates :
        /\ ingestionStates[a].status = "completed" /\ ingestionStates[a].progress = 100
        /\ ingestionStates[b].status = "failed" /\ ingestionStates[b].progress = 0
        /\ \E p \in Procs : ret[p].call = "ingestDocument" /\ ret[p].id = b

\* C9: in every state getAllDocuments returns the metadata of exactly the
\* tracked documents whose status is completed, each once.
C9_ListIsCompletedDocuments ==
    LET result == getAllDocuments
        completed == {id \in DOMAIN ingestionStates :
                         ingestionStates[id].status = "completed"}
    IN  /\ Len(result) = Cardinality(completed)
        /\ \A id \in completed :
              \E i \in 1 .. Len(result) :
                 result[i] = [documentId |-> id,
                              chunkCount |-> ingestionStates[id].chunks]
        /\ \A i \in 1 .. Len(result) : result[i].documentId \in completed

\* one document listed while another ingestion is suspended in the splitter
C9_Witness ==
    /\ Len(getAllDocuments) = 1
    /\ \E p \in Procs :
          /\ pc[p].op = "ingestDocument" /\ pc[p].at = "split"
          /\ pc[p].id \in DOMAIN ingestionStates
          /\ ingestionStates[pc[p].id].status = "processing"

\* C10: an updateConfig that raises ConfigurationError leaves the
\* configuration getConfig returns field for field as it was.
C10_RejectedUpdateIsAtomic ==
    [][\A p \in Procs :
         ( /\ Completes(p)
           /\ ret'[p].call = "updateConfig"
           /\ ret'[p].outcome = "ConfigurationError" )
         => getConfig' = getConfig]_vars

\* a rejected update after an accepted one
C10_Witness ==
    /\ \E p \in Procs :
          ret[p] = Threw("updateConfig", "docs", NoId, "ConfigurationError",
                         "Chunk overlap must be less than chunk size")
    /\ configInstance # <<>>
    /\ getConfig.chunkSize = 500

\* C11: whatever updateConfig calls were made, accepted or rejected, the
\* stored configuration has chunkOverlap < chunkSize.
C11_OverlapBelowChunkSize == getConfig.chunkOverlap < getConfig.chunkSize

\* an overlap of 600 was accepted under the default chunk size, and the
\* update that then lowers the chunk size to 500 was rejected
C11_Witness ==
    /\ \E p \in Procs :
          ret[p] = Threw("updateConfig", "docs", NoId, "ConfigurationError",
                         "Chunk overlap must be less than chunk size")
    /\ configInstance # <<>>
    /\ getConfig.chunkOverlap = 600
    /\ getConfig.chunkSize = DefaultChunkSize

\* C12: the configuration is only replaced by validated updates: whatever
\* updateConfig calls were made, the stored configuration has chunkSize in
\* 100..10000, chunkOverlap in 0..5000, topK in 1..20, llmMaxTokens in
\* 1..4000, llmTemperature in [0, 2] and scoreThreshold in [0, 1].
C12_StoredConfigInRange ==
    /\ getConfig.chunkSize \in 100..10000
    /\ getConfig.chunkOverlap \in 0..5000
    /\ getConfig.topK \in 1..20
    /\ getConfig.llmMaxTokens \in 1..4000
    /\ getConfig.llmTemperature \in 0..20
    /\ getConfig.scoreThreshold \in 0..10

\* C13: every askQuestion / askWithHistory call retrieves with k equal to the
\* effective topK of that call (the topK of its config argument if given,
\* else the global topK): the number of sources it returns never exceeds
\* that k, on the first call of an engine and on every later one.
C13_SourcesWithinEffectiveTopK ==
    [][\A p \in Procs :
         ( /\ Completes(p)
           /\ pc[p].op \in AskOps
           /\ ret'[p].outcome = "returned" )
         => ret'[p].count <= pc[p].qaConfig.topK]_vars

\* C14: an ask that carries a temperature or maxTokens override is answered
\* by a language-model client with the merged temperature and maxTokens of
\* that call, whether or not the chain had been built by an earlier call.
C14_OverrideAnsweredByNewClient ==
    [][\A p \in Procs :
         ( /\ Completes(p)
           /\ pc[p].op \in AskOps
           /\ ret'[p].outcome = "returned"
           /\ OverridesClient(pc[p].config) )
         => ret'[p].client = Client(pc[p].qaConfig.temperature,
                                    pc[p].qaConfig.maxTokens)]_vars

\* C15: every failure of askQuestion and askWithHistory is typed.  A call
\* with an empty or whitespace-only question fails with RetrievalError at
\* once: no chain is built, no client replaced, no store initialised and
\* nothing retrieved.  A call with any other question returns or fails with
\* LLMError.
C15_AskFailuresAreTyped ==
    [][\A p \in Procs :
         ( /\ Completes(p)
           /\ ret'[p].call \in AskOps )
         => IF IsBlankQuestion(ret'[p].question)
            THEN /\ ret'[p].outcome = "RetrievalError"
                 /\ pc[p].op = "idle"
                 /\ UNCHANGED <<qaVars, storeVars>>
            ELSE ret'[p].outcome \in {"returned", "LLMError"}]_vars

\* a whitespace-only question is rejected by an engine that has built one
\* of its chains and not the other
C15_Witness ==
    /\ \E p \in Procs :
          /\ ret[p].call = "askWithHistory"
          /\ ret[p].question = Blank
          /\ ret[p].outcome = "RetrievalError"
    /\ qaChain["lib"] # NoChain
    /\ conversationalChain["lib"] = NoChain

\* C16: once deleteDocument(id) has returned true or clearStore has
\* returned, and until chunks of id are added again, no ask started
\* afterwards on an engine over that manager returns a source whose
\* documentId is id, even when the chain was built before the deletion.
C16_DeletedChunksNotReturned ==
    [][\A p \in Procs, id \in CallerIds :
         ( /\ Completes(p)
           /\ pc[p].op \in AskOps
           /\ ret'[p].outcome = "returned"
           /\ added[pc[p].m][id] = 0 )
         => ret'[p].sources[id] = 0]_vars

\* C17: calculateConfidence returns 0 for no retrieved chunk; the mean of
\* the metadata scores brought into [0, 1] when retrieved chunks carry
\* scores; otherwise 0.2, 0.4, 0.6 for 1, 2, 3 chunks and 0.8 for 4 or more;
\* so the confidence of every response lies in [0, 1].
C17_ConfidenceOfResponse ==
    [][\A p \in Procs :
         ( /\ Completes(p)
           /\ pc[p].at = "respond" )
         => LET docs == pc[p].sourceDocuments
                n == Len(docs)
                scored == {i \in 1 .. n : "score" \in DOMAIN docs[i]}
                sum == SumOver([i \in scored |-> docs[i].score], scored)
                c == ret'[p].confidence
                Is(num, den) == c[1] * den = num * c[2]
            IN  /\ c[2] > 0 /\ 0 <= c[1] /\ c[1] <= c[2]
                /\ n = 0 => Is(0, 1)
                /\ scored # {} =>
                      IF sum <= 0 THEN Is(0, 1)
                      ELSE IF sum >= 10 * Cardinality(scored) THEN Is(1, 1)
                      ELSE Is(sum, 10 * Cardinality(scored))
                /\ (n > 0 /\ scored = {}) =>
                      CASE n = 1 -> Is(2, 10)
                        [] n = 2 -> Is(4, 10)
                        [] n = 3 -> Is(6, 10)
                        [] OTHER -> Is(8, 10)]_vars

\* a response to five chunks without scores, with confidence 0.8
C17_Witness ==
    \E p \in Procs :
        /\ ret[p].call = "askQuestion"
        /\ ret[p].count = 5
        /\ ret[p].confidence[1] * 10 = 8 * ret[p].confidence[2]
        /\ \A i \in 1 .. 5 : ret[p].formatted[i].relevanceScore = 10
                              /\ ret[p].formatted[i].documentId # "A"

\* C18: the sources of a response are the retrieved chunks one for one in
\* retrieval order; a chunk with no documentId gets documentId
\* unknown_{position} (positions counted from 0), a chunk with no score
\* gets relevanceScore 1.0, and a score or chunkIndex that is present, 0
\* included, is reported unchanged.
C18_SourcesOfResponse ==
    [][\A p \in Procs :
         ( /\ Completes(p)
           /\ pc[p].at = "respond" )
         => LET docs == pc[p].sourceDocuments
                sources == ret'[p].formatted
            IN  /\ Len(sources) = Len(docs)
                /\ \A i \in 1 .. Len(docs) :
                      /\ "documentId" \in DOMAIN docs[i] /\ docs[i].documentId # ""
                            => sources[i].documentId = docs[i].documentId
                      /\ "documentId" \notin DOMAIN docs[i]
                            => sources[i].documentId = "unknown_" \o ToString(i - 1)
                      /\ "score" \in DOMAIN docs[i]
                            => sources[i].relevanceScore = docs[i].score
                      /\ "score" \notin DOMAIN docs[i]
                            => sources[i].relevanceScore = 10
                      /\ "chunkIndex" \in DOMAIN docs[i]
                            => sources[i].chunkIndex = docs[i].chunkIndex]_vars

\* a response whose second source has no documentId and whose first has
\* score 0 and chunkIndex 0
C18_Witness ==
    \E p \in Procs :
        /\ ret[p].call = "askQuestion"
        /\ ret[p].count = 2
        /\ ret[p].formatted[1] = [documentId |-> "A", chunkIndex |-> 0,
                                  relevanceScore |-> 0]
        /\ ret[p].formatted[2] = [documentId |-> "unknown_1", chunkIndex |-> 1,
                                  relevanceScore |-> 10]

\* C19: similaritySearch and similaritySearchWithScore fail with
\* VectorStoreError when the query is empty or whitespace-only or when
\* k < 1; the store is then not queried, and the registry and the indexed
\* chunks are as before the call.
C19_InvalidSearchIsRejected ==
    [][\A p \in Procs :
         ( /\ Completes(p)
           /\ ret'[p].call \in SearchOps
           /\ (ret'[p].question \in {"", Blank} \/ ret'[p].k < 1) )
         => /\ ret'[p].outcome = "VectorStoreError"
            /\ pc[p].op = "idle"
            /\ documentRegistry' = documentRegistry
            /\ \A m \in Managers : Content(m)' = Content(m)]_vars

\* a search with k = 0 is rejected on a manager that holds two documents
C19_Witness ==
    /\ \E p \in Procs :
          /\ ret[p].call = "similaritySearchWithScore"
          /\ ret[p].outcome = "VectorStoreError"
          /\ ret[p].question = "q" /\ ret[p].k = 0
    /\ DOMAIN documentRegistry["lib"] = CallerIds
    /\ Total(Content("lib")) = 2

\* C20: for a valid query and k >= 1 over an index of N chunks,
\* similaritySearch(query, k) returns exactly min(k, N) chunks of the index,
\* in order of non-increasing similarity to the query, and no chunk left
\* out is more similar than the last one returned.
C20_SearchReturnsTopK ==
    [][\A p \in Procs :
         ( /\ Completes(p)
           /\ ret'[p].call = "similaritySearch"
           /\ ret'[p].outcome = "returned" )
         => LET c == stores[pc[p].target]
                r == ret'[p].results
                query == ret'[p].question
                taken(id) == Cardinality({i \in 1 .. Len(r) : r[i] = id})
            IN  /\ Len(r) = Min(ret'[p].k, Total(c))
                /\ \A id \in DocKeys : taken(id) <= c[id]
                /\ \A i, j \in 1 .. Len(r) :
                      i < j => Similarity(query, r[i]) >= Similarity(query, r[j])
                /\ \A id \in DocKeys :
                      (taken(id) < c[id] /\ Len(r) > 0)
                      => Similarity(query, id) <= Similarity(query, r[Len(r)])]_vars

\* the one chunk closest to "r" is returned out of two
C20_Witness ==
    /\ \E p \in Procs :
          /\ ret[p].call = "similaritySearch"
          /\ ret[p].question = "r" /\ ret[p].k = 1
          /\ ret[p].results = <<"B">>
    /\ Content("lib")["A"] = 1

\* C21: searchWithinDocument(documentId, query, k) returns no chunk for a
\* documentId the registry does not know; otherwise it returns at most k
\* chunks, all of that document: those among the k * 3 chunks of the store
\* most similar to the query, in their order, cut after the k-th.
C21_SearchWithinDocument ==
    [][\A p \in Procs :
         ( /\ Completes(p)
           /\ ret'[p].call = "searchWithinDocument"
           /\ ret'[p].outcome = "returned" )
         => LET id == ret'[p].id
                r == ret'[p].results
                k == ret'[p].k
                top == Ranked(Content(ret'[p].m), ret'[p].question, k * 3)
                inTop == Cardinality({i \in 1 .. Len(top) : top[i] = id})
            IN  IF ~hasDocument(ret'[p].m, id)
                THEN r = <<>>
                ELSE /\ Len(r) <= k
                     /\ \A i \in 1 .. Len(r) : r[i] = id
                     /\ Len(r) = Min(k, inTop)]_vars

\* the search within a document that has a chunk in the store finds none:
\* the three chunks closest to the query belong to another document
C21_Witness ==
    /\ \E p \in Procs :
          /\ ret[p].call = "searchWithinDocument"
          /\ ret[p].outcome = "returned"
          /\ ret[p].id = "A" /\ ret[p].k = 1
          /\ ret[p].results = <<>>
    /\ getDocumentChunkCount("lib", "A") = 1
    /\ Content("lib")["A"] = 1

\* C22: getStoreStats only reads the registry: it changes nothing, a call
\* that follows another with nothing in between returns the same value,
\* totalDocuments is the number of documentIds returned, totalChunks the sum
\* of getDocumentChunkCount over them, and hasDocument is true of exactly
\* the ids returned.
C22_StoreStatsReadTheRegistry ==
    [][\A p \in Procs :
         ( /\ pc[p].op = "idle"
           /\ ret'[p].call = "getStoreStats" )
         => LET stats == ret'[p].stats
                m == ret'[p].m
            IN  /\ UNCHANGED <<storeVars, ingestVars, configVars, qaVars>>
                /\ ret[p].call = "getStoreStats" => stats = ret[p].stats
                /\ stats.totalDocuments = Cardinality(stats.documentIds)
                /\ stats.totalChunks =
                      SumOver([id \in stats.documentIds |->
                                  getDocumentChunkCount(m, id)], stats.documentIds)
                /\ \A id \in DocKeys : hasDocument(m, id) <=> id \in stats.documentIds]_vars

\* the statistics of a manager holding two documents, one of 10000 chunks
C22_Witness ==
    \E p \in Procs :
        /\ ret[p].call = "getStoreStats"
        /\ ret[p].stats.totalDocuments = 2
        /\ ret[p].stats.totalChunks = FullScanK + 1

\* C23: DELETE /api/documents/:id answers 404 exactly when the id is known
\* neither to the ingestion table nor to the registry of the index when the
\* request arrives; in every other case it answers 200, and after that
\* response the id is in neither.
C23_DeleteAnswers404OrSuccess ==
    [][\A p \in Procs : \A id \in DocKeys :
         ( /\ Completes(p)
           /\ ret'[p].call = "delete"
           /\ ret'[p].id = id )
         => LET known == IF pc[p].op = "idle"
                         THEN id \in DOMAIN ingestionStates \/ hasDocument("docs", id)
                         ELSE TRUE
            IN  /\ ret'[p].status = 404 <=> ~known
                /\ known => /\ ret'[p].status = 200
                            /\ id \notin DOMAIN ingestionStates'
                            /\ ~hasDocument("docs", id)']_vars

\* C24: for every text T with len(T) <= chunkSize, splitText returns exactly
\* one chunk, whose content is T.trim() and whose metadata is the caller's
\* with chunkIndex 0 and totalChunks 1, and the recursive splitter is not
\* called.
C24_ShortTextIsOneChunk ==
    [][\A p \in Procs :
         ( /\ pc[p].op = "splitText"
           /\ Len(pc[p].text) <= pc[p].cfg.chunkSize )
         => /\ pc'[p].at # "createDocuments"
            /\ Completes(p) =>
                 /\ ret'[p].outcome = "returned"
                 /\ ret'[p].results =
                      <<[pageContent |-> trim(pc[p].text),
                         metadata |-> WithIndex(pc[p].metadata, 0, 1)]>>]_vars

\* C24 amended: the same for every such T that is not empty once trimmed; a
\* T that is empty once trimmed makes splitText fail with
\* DocumentProcessingError, again without a call of the recursive splitter.
C24_ShortNonBlankTextIsOneChunk ==
    [][\A p \in Procs :
         ( /\ pc[p].op = "splitText"
           /\ Len(pc[p].text) <= pc[p].cfg.chunkSize )
         => /\ pc'[p].at # "createDocuments"
            /\ Completes(p) =>
                 IF trim(pc[p].text) = <<>>
                 THEN ret'[p].outcome = "DocumentProcessingError"
                 ELSE /\ ret'[p].outcome = "returned"
                      /\ ret'[p].results =
                           <<[pageContent |-> trim(pc[p].text),
                              metadata |-> WithIndex(pc[p].metadata, 0, 1)]>>]_vars

\* a text that fits in chunkSize came back as the one chunk "a", numbered 0
\* of 1
C24_Witness ==
    \E p \in Procs :
        /\ ret[p].call = "splitText"
        /\ ret[p].outcome = "returned"
        /\ Len(ret[p].results) = 1
        /\ ret[p].results[1].pageContent = <<"a">>
        /\ ret[p].results[1].metadata.chunkIndex = 0
        /\ ret[p].results[1].metadata.totalChunks = 1

\* C25: ingestDocument validates the file, then the chunking configuration,
\* then loads, then splits: with chunkSize <= 0, chunkOverlap < 0 or
\* chunkOverlap >= chunkSize the ingestion never reaches the loader or the
\* splitter, its progress stays below 40, and it fails, with the error of
\* the file validation when the file is invalid too.
C25_InvalidChunkingFailsBeforeLoad ==
    [][\A p \in Procs :
         ( /\ pc[p].op = "ingestDocument"
           /\ \/ pc[p].cfg.chunkSize <= 0
              \/ pc[p].cfg.chunkOverlap < 0
              \/ pc[p].cfg.chunkOverlap >= pc[p].cfg.chunkSize )
         => /\ pc[p].at = "validate"
            /\ pc'[p].op = "ingestDocument" => pc'[p].at = "validate"
            /\ \A id \in MintedIds :
                  (id = pc[p].id /\ id \in DOMAIN ingestionStates')
                  => ingestionStates'[id].progress < 40
            /\ Completes(p) =>
                 /\ ~ret'[p].ok
                 /\ ret'[p].error =
                      IF validateFile(pc[p].file, DefaultMaxFileSize) # ""
                      THEN validateFile(pc[p].file, DefaultMaxFileSize)
                      ELSE IF pc[p].cfg.chunkSize <= 0 THEN "Invalid chunk size"
                      ELSE IF pc[p].cfg.chunkOverlap < 0 THEN "Invalid chunk overlap"
                      ELSE "Chunk overlap must be less than chunk size"]_vars

\* the ingestion of a valid file failed on a negative chunkOverlap, its
\* state entry failed at progress 0
C25_Witness ==
    \E p \in Procs :
        /\ ret[p].call = "ingestDocument"
        /\ ~ret[p].ok
        /\ ret[p].error = "Invalid chunk overlap"
        /\ ret[p].id \in DOMAIN ingestionStates
        /\ ingestionStates[ret[p].id].status = "failed"

\* C26: a documentApi or qaApi call whose request fails without a response
\* or with a status in 500..599 is sent again after a delay, up to
\* MAX_RETRIES further times, and a request that fails with a 4xx status is
\* not sent again: a call fails on a missing response or a 5xx status only
\* at its third attempt, and on a 4xx status at the attempt that got it.
C26_FailedRequestIsRetried ==
    [][\A p \in Procs :
         ( /\ pc[p].op \in ClientCalls /\ pc[p].at = "request" )
         => LET attempts == MAX_RETRIES - pc[p].n + 1
            IN  /\ attempts <= MAX_RETRIES + 1
                /\ ( Completes(p) /\ ret'[p].outcome # "returned" ) =>
                     IF ret'[p].status = Null \/ ret'[p].status >= 500
                     THEN attempts = MAX_RETRIES + 1
                     ELSE ret'[p].count = attempts
                /\ ( pc'[p].at = "delay" ) => pc'[p].n = pc[p].n - 1]_vars

\* C27: after any sequence of successful addDocuments, deleteDocument and
\* clearStore calls run one at a time, totalChunks of getStoreStats is the
\* number of chunks the store holds, chunks without documentId included.
C27_RegistryCountsTheStore ==
    (\A p \in Procs : pc[p].op = "idle")
    => getStoreStats("lib").totalChunks = Total(Content("lib"))

\* C28: a deleteDocument that throws VectorStoreError leaves the registry
\* and the chunks held by the store as they were when the call started.
C28_FailedDeleteChangesNothing ==
    [][\A p \in Procs, m \in Managers :
         ( /\ Completes(p)
           /\ ret'[p].call = "deleteDocument" /\ ret'[p].m = m
           /\ ret'[p].outcome = "VectorStoreError" )
         => IF pc[p].op = "idle"
            THEN /\ documentRegistry'[m] = documentRegistry[m]
                 /\ Content(m)' = Content(m)
            ELSE /\ documentRegistry'[m] = pc[p].preReg
                 /\ Content(m)' = pc[p].preContent]_vars

\* C29: while no upload request is in flight, every document that
\* GET /api/documents lists is in the index the upload route fills:
\* hasDocument holds and the registry has chunkCount entries for it.
C29_ListedDocumentsAreIndexed ==
    (\A p \in Procs : pc[p].route # "upload")
    => \A i \in 1 .. Len(getAllDocuments) :
          /\ hasDocument("docs", getAllDocuments[i].documentId)
          /\ getDocumentChunkCount("docs", getAllDocuments[i].documentId)
                = getAllDocuments[i].chunkCount

\* C30: an askQuestion or askWithHistory call without a temperature or
\* maxTokens override is answered by a language-model client with the
\* global llmTemperature and llmMaxTokens, whatever the overrides of the
\* calls made before it on the same engine.
C30_OverridesDoNotLeak ==
    [][\A p \in Procs :
         ( /\ Completes(p)
           /\ pc[p].op \in AskOps
           /\ ret'[p].outcome = "returned"
           /\ ~OverridesClient(pc[p].config) )
         => ret'[p].client = Client(getConfig.llmTemperature,
                                    getConfig.llmMaxTokens)]_vars
====
